---- MODULE Spec2Model ----
(***************************************************************************)
(* The python-service HTTP layer (src/python-service/app.py): the startup  *)
(* model load, the three Flask routes, and the library calls the handlers  *)
(* rest on (request.get_json, base64.b64decode, convert_single_pdf).       *)
(*                                                                         *)
(* Text is modelled as a sequence of tokens, so that len() is Len and      *)
(* "contains" is a sub-sequence test.  JSON values are records with the    *)
(* same fields whatever their JSON type.                                   *)
(***************************************************************************)
EXTENDS Integers, Sequences, FiniteSets, TLC

VARIABLES mainpc, model_list, loads, pc, req, local, resp, parsed, calls, log

vars == <<mainpc, model_list, loads, pc, req, local, resp, parsed, calls, log>>

(* ------------------------------ bounds --------------------------------- *)

\* longest pdf_base64 string drawn as input
MaxB64Len == 4
\* longest markdown text the pipeline returns
MaxMd == 2
\* connections handled at the same time in SpecConc
NumSlots == 3

(* --------------------------- text helpers ------------------------------ *)

SeqsUpTo(S, n) == UNION {[1..k -> S] : k \in 0..n}

\* Python's `needle in text` on token sequences
Contains(text, needle) ==
    \E i \in 1..(Len(text) + 1) :
        /\ i + Len(needle) - 1 <= Len(text)
        /\ SubSeq(text, i, i + Len(needle) - 1) = needle

(* ----------------------- JSON values and bodies ------------------------ *)

\* "A" stands for a character of the base64 alphabet, "=" is the pad
\* character, "!" stands for an ASCII character outside the alphabet.
B64Chars == {"A", "=", "!"}
IsB64Alphabet(c) == c = "A"

StrVal(s) == [t |-> "str", s |-> s]
\* JSON values that are not ASCII strings: a string with a non-ASCII
\* character, null, a number, an array
OtherVals == {[t |-> ty, s |-> <<>>] : ty \in {"nonascii", "null", "number", "array"}}
B64Values == {StrVal(s) : s \in SeqsUpTo(B64Chars, MaxB64Len)} \cup OtherVals

\* the two spellings of the payload key that clients send
SnakeKey == "pdf_base64"
CamelKey == "pdfBase64"

\* fault variant of RequiredKey: the handler looks up the camel-case key
RequiredKeyCamel == CamelKey

\* the key convert_pdf looks up
RequiredKey == "pdf_base64"
FilenameKey == "filename"
DefaultFilename == StrVal(<<"document.pdf">>)

(* --------------------------- base64.b64decode -------------------------- *)

\* binascii.a2b_base64 in its default, non-strict mode, as b64decode(s)
\* calls it: a character outside the alphabet is skipped, a pad character
\* counts only once two characters of a quad are in, a complete pad
\* sequence ends the parse whatever follows, and the input is rejected only
\* when it ends inside a quad.  Returns the number of decoded bytes, or -1
\* for binascii.Error.
RECURSIVE A2bBase64(_, _, _, _, _)
A2bBase64(s, i, quad_pos, pads, n) ==
    IF i > Len(s)
    THEN IF quad_pos # 0 THEN -1 ELSE n
    ELSE IF s[i] = "="
         THEN IF quad_pos >= 2 /\ quad_pos + pads + 1 >= 4
              THEN n
              ELSE A2bBase64(s, i + 1, quad_pos,
                             IF quad_pos >= 2 THEN pads + 1 ELSE pads, n)
         ELSE IF ~IsB64Alphabet(s[i])
              THEN A2bBase64(s, i + 1, quad_pos, pads, n)
              ELSE A2bBase64(s, i + 1, (quad_pos + 1) % 4, 0,
                             IF quad_pos = 0 THEN n ELSE n + 1)

Raised(cls, msg) == [raised |-> TRUE, cls |-> cls, msg |-> msg, bytes |-> 0]
Returned(nbytes) == [raised |-> FALSE, cls |-> "", msg |-> <<>>, bytes |-> nbytes]

\* base64.b64decode(v): TypeError for a value that is no string, ValueError
\* for a string with a non-ASCII character, binascii.Error for a string the
\* parse rejects, else the decoded bytes (their number)
B64Decode(v) ==
    IF v.t = "nonascii"
    THEN Raised("ValueError", <<"string argument should contain only ASCII characters">>)
    ELSE IF v.t # "str"
    THEN Raised("TypeError", <<"argument should be a bytes-like object or ASCII string">>)
    ELSE IF A2bBase64(v.s, 1, 0, 0, 0) < 0
    THEN Raised("binascii.Error", <<"Incorrect padding">>)
    ELSE Returned(A2bBase64(v.s, 1, 0, 0, 0))

(* ---------------------------- request bodies --------------------------- *)

NoFields == [k \in {} |-> StrVal(<<>>)]
Field(k, v) == [x \in {k} |-> v]
Merge(f, g) == [k \in (DOMAIN f) \cup (DOMAIN g) |-> IF k \in DOMAIN f THEN f[k] ELSE g[k]]

Body(kind, items, fields) == [kind |-> kind, items |-> items, fields |-> fields]

\* bodies that are not a JSON object: text no JSON parser accepts, a
\* zero-length body, and the JSON values null, false, true, 0, 7, "", "abc",
\* "..pdf_base64..", [], ["x"], ["pdf_base64"]
NonObjectBodies ==
    { Body("malformed", <<>>, NoFields), Body("empty", <<>>, NoFields),
      Body("null", <<>>, NoFields),
      Body("bool", <<"false">>, NoFields), Body("bool", <<"true">>, NoFields),
      Body("number", <<"0">>, NoFields), Body("number", <<"7">>, NoFields),
      Body("string", <<>>, NoFields), Body("string", <<"abc">>, NoFields),
      Body("string", <<"x", SnakeKey, "y">>, NoFields),
      Body("array", <<>>, NoFields), Body("array", <<"x">>, NoFields),
      Body("array", <<SnakeKey>>, NoFields) }

SampleB64 == StrVal(<<"A", "A", "A", "A">>)
SampleName == StrVal(<<"scan.pdf">>)
OptField(k, vals) == {NoFields} \cup {Field(k, v) : v \in vals}

\* JSON objects carrying the key the handler reads, with every value of
\* B64Values, with and without a filename
KeyedObjects ==
    { Body("object", <<>>, Merge(Field(SnakeKey, v), f)) :
        v \in B64Values, f \in OptField(FilenameKey, {SampleName}) }

\* JSON objects without that key: {}, other keys only, the camel-case key
UnkeyedObjects ==
    { Body("object", <<>>, Merge(Merge(c, f), o)) :
        c \in OptField(CamelKey, {SampleB64}),
        f \in OptField(FilenameKey, {SampleName}),
        o \in OptField("texts", {StrVal(<<"t">>)}) }

BothKeysObject ==
    Body("object", <<>>, Merge(Field(SnakeKey, StrVal(<<"A">>)), Field(CamelKey, SampleB64)))

(* ----------------------- pipeline collaborator ------------------------- *)

\* What convert_single_pdf does with the document of a request: it returns
\* (markdown_text, images, metadata), or returns something the handler's
\* unpacking, len() or .get() rejects, or raises an error with a message.
Markdowns == SeqsUpTo({"a"}, MaxMd)
Metas ==
    { Merge(p, c) : p \in OptField("pages", {1, 2}),
                    c \in OptField("chars", {MaxMd + 1}) }
ImageSets == {[none |-> TRUE, names |-> {}], [none |-> FALSE, names |-> {}],
              [none |-> FALSE, names |-> {"img1"}]}
PipeMsgs == {<<>>, <<"boom">>, <<"bad", "xref">>}

NoMeta == [k \in {} |-> 0]
NoImages == [none |-> TRUE, names |-> {}]
NoPipe == [kind |-> "none", md |-> <<>>, meta |-> NoMeta, images |-> NoImages, msg |-> <<>>]
PipeReturns ==
    { [kind |-> "returns", md |-> md, meta |-> me, images |-> im, msg |-> <<>>] :
        md \in Markdowns, me \in Metas, im \in ImageSets }
PipeRaises ==
    { [kind |-> "raises", md |-> <<>>, meta |-> NoMeta, images |-> NoImages, msg |-> m] :
        m \in PipeMsgs }
PipeBadReturn ==
    [kind |-> "badreturn", md |-> <<>>, meta |-> NoMeta, images |-> NoImages,
     msg |-> <<"cannot unpack non-iterable NoneType object">>]
Pipes == PipeReturns \cup PipeRaises \cup {PipeBadReturn}

(* ------------------------------ requests ------------------------------- *)

JsonType == "application/json"
PlainType == "text/plain"

Request(route, ctype, body, pipe) ==
    [route |-> route, ctype |-> ctype, body |-> body, pipe |-> pipe]

HealthRequests == {Request("health", PlainType, Body("empty", <<>>, NoFields), NoPipe)}

EmbeddingsRequests ==
    { Request("embeddings", JsonType, b, NoPipe) :
        b \in NonObjectBodies \cup {Body("object", <<>>, Field("texts", StrVal(<<"t">>)))} }
    \cup {Request("embeddings", PlainType, Body("empty", <<>>, NoFields), NoPipe)}

ConvertRequests ==
    { Request("convert", JsonType, b, NoPipe) : b \in NonObjectBodies }
    \cup { Request("convert", JsonType, b, p) :
             b \in KeyedObjects \cup UnkeyedObjects \cup {BothKeysObject}, p \in Pipes }
    \cup { Request("convert", PlainType, b, p) :
             b \in {Body("empty", <<>>, NoFields),
                    Body("object", <<>>, Field(SnakeKey, SampleB64))},
             p \in {NoPipe} }

Requests == HealthRequests \cup EmbeddingsRequests \cup ConvertRequests

\* the requests drawn when several connections are open at once
ConcRequests ==
    HealthRequests
    \cup {Request("embeddings", JsonType, Body("malformed", <<>>, NoFields), NoPipe)}
    \cup { Request("convert", JsonType, b, NoPipe) :
             b \in {Body("malformed", <<>>, NoFields), Body("object", <<>>, NoFields),
                    Body("object", <<>>, Field(SnakeKey, StrVal(<<"A">>)))} }
    \cup {Request("convert", PlainType, Body("object", <<>>, Field(SnakeKey, SampleB64)), NoPipe)}
    \cup { Request("convert", JsonType, Body("object", <<>>, Field(SnakeKey, SampleB64)), p) :
             p \in { [kind |-> "returns", md |-> <<"a">>, meta |-> Field("pages", 1),
                      images |-> NoImages, msg |-> <<>>],
                     [kind |-> "raises", md |-> <<>>, meta |-> NoMeta,
                      images |-> NoImages, msg |-> <<"boom">>] } }

(* ------------------------- request.get_json() -------------------------- *)

JsonRaised(cls, msg) ==
    [raised |-> TRUE, cls |-> cls, msg |-> msg, data |-> Body("null", <<>>, NoFields)]
JsonReturned(data) == [raised |-> FALSE, cls |-> "", msg |-> <<>>, data |-> data]

\* request.get_json() with no arguments.  A body the JSON parser rejects
\* (a zero-length one included) raises werkzeug's BadRequest.  A request
\* whose content type is not JSON gets None from the older Flask releases
\* and UnsupportedMediaType from the newer ones; the repository pins no
\* release, so both are outcomes.
GetJson(r) ==
    IF r.ctype # JsonType
    THEN { JsonReturned(Body("null", <<>>, NoFields)),
           JsonRaised("UnsupportedMediaType", <<"415 Unsupported Media Type">>) }
    ELSE IF r.body.kind \in {"malformed", "empty"}
    THEN { JsonRaised("BadRequest", <<"400 Bad Request">>) }
    ELSE { JsonReturned(r.body) }

\* Python truth value of a parsed JSON value (`not data`)
Truthy(data) ==
    CASE data.kind = "null" -> FALSE
      [] data.kind = "bool" -> data.items = <<"true">>
      [] data.kind = "number" -> data.items # <<"0">>
      [] data.kind \in {"string", "array"} -> data.items # <<>>
      [] data.kind = "object" -> DOMAIN data.fields # {}

\* `'pdf_base64' in data` raises TypeError on a number or a boolean
SupportsIn(data) == data.kind \in {"string", "array", "object"}

\* `'pdf_base64' in data`: a key of an object, an element of an array, a
\* substring of a string
KeyIn(data) ==
    CASE data.kind = "object" -> RequiredKey \in DOMAIN data.fields
      [] data.kind = "array" -> \E i \in 1..Len(data.items) : data.items[i] = RequiredKey
      [] data.kind = "string" -> Contains(data.items, <<RequiredKey>>)

\* data.get(key, default)
DictGet(fields, key, default) == IF key \in DOMAIN fields THEN fields[key] ELSE default

(* ------------------------------ responses ------------------------------ *)

MissingMsg == <<"Missing pdf_base64 in request body">>
InvalidB64Msg == <<"Invalid base64 encoding">>
ConvFailedPrefix == <<"PDF conversion failed: ">>
NotImplementedMsg == <<"Not implemented yet - use OpenAI embeddings for now">>

Response(status, body) == [status |-> status, body |-> body]
NoResp == Response(0, [k \in {} |-> 0])
Failure(status, error) == Response(status, [success |-> FALSE, error |-> error])

HealthPayload ==
    [status |-> "healthy", service |-> "python-ml-service", version |-> "1.0.0"]

\* fault variant of ConversionFailed: a fixed message, as the base64 branch
\* gives, without the text of the exception
ConversionFailedGeneric(msg) == Failure(500, <<"PDF conversion failed">>)

\* the 500 response of the handler's outer except clause
ConversionFailed(msg) == Failure(500, ConvFailedPrefix \o msg)

\* fault variant of CharsOf: the character count the pipeline reports, when
\* it reports one
CharsFromMetadata(markdown_text, metadata) ==
    DictGet(metadata, "chars", Len(markdown_text))

\* metadata.chars of a success response
CharsOf(markdown_text, metadata) == Len(markdown_text)

\* metadata.images_extracted: len(images) if images else 0
ImagesExtracted(images) ==
    IF ~images.none /\ images.names # {} THEN Cardinality(images.names) ELSE 0

Success(markdown_text, images, metadata) ==
    Response(200, [success |-> TRUE,
                   markdown |-> markdown_text,
                   metadata |-> [pages |-> DictGet(metadata, "pages", 0),
                                 chars |-> CharsOf(markdown_text, metadata),
                                 images_extracted |-> ImagesExtracted(images)]])

\* `except Exception` catches every class the handler's calls raise
ExceptionClasses ==
    {"BadRequest", "UnsupportedMediaType", "TypeError", "ValueError",
     "binascii.Error", "PipelineError"}
CaughtByInner(cls) == cls \in ExceptionClasses
\* fault variant of CaughtByOuter: the clause names the pipeline's error class
CaughtOnlyPipeline(cls) == cls = "PipelineError"
CaughtByOuter(cls) == cls \in ExceptionClasses

\* what Flask answers when an exception leaves a view function: the error
\* page of an HTTPException, else its 500 page
FlaskErrorPage(cls) ==
    Response(CASE cls = "BadRequest" -> 400
               [] cls = "UnsupportedMediaType" -> 415
               [] OTHER -> 500,
             [html |-> <<cls>>])

LogLine(level, event) == [level |-> level, event |-> event]

Exit(response, logs) ==
    [call |-> FALSE, resp |-> response, logs |-> logs,
     filename |-> DefaultFilename, nbytes |-> 0]
Call(filename, nbytes, logs) ==
    [call |-> TRUE, resp |-> NoResp, logs |-> logs, filename |-> filename, nbytes |-> nbytes]

\* an exception raised inside the handler's try block
ExceptionExit(e) ==
    IF CaughtByOuter(e.cls)
    THEN Exit(ConversionFailed(e.msg), <<LogLine("ERROR", "PDF conversion error")>>)
    ELSE Exit(FlaskErrorPage(e.cls), <<>>)

(* ----------------------------- convert_pdf ----------------------------- *)

\* convert_pdf from its entry to the call of convert_single_pdf, given the
\* outcome g of request.get_json(): an early response, or the call
ConvertPdfEntry(g) ==
    IF g.raised THEN ExceptionExit(g)
    ELSE IF ~Truthy(g.data) THEN Exit(Failure(400, MissingMsg), <<>>)
    ELSE IF ~SupportsIn(g.data)
    THEN ExceptionExit(Raised("TypeError", <<"argument of type is not iterable">>))
    ELSE IF ~KeyIn(g.data) THEN Exit(Failure(400, MissingMsg), <<>>)
    ELSE IF g.data.kind # "object"
    THEN ExceptionExit(Raised("TypeError", <<"indices must be integers">>))
    ELSE LET pdf_base64 == g.data.fields[RequiredKey]
             filename == DictGet(g.data.fields, FilenameKey, DefaultFilename)
             decoded == B64Decode(pdf_base64)
         IN  IF decoded.raised
             THEN IF CaughtByInner(decoded.cls)
                  THEN Exit(Failure(400, InvalidB64Msg),
                            <<LogLine("ERROR", "Base64 decode error")>>)
                  ELSE ExceptionExit(decoded)
             ELSE Call(filename, decoded.bytes, <<LogLine("INFO", "Converting PDF")>>)

\* convert_pdf from the return of convert_single_pdf to its response
ConvertPdfExit(p) ==
    CASE p.kind = "returns" ->
           Exit(Success(p.md, p.images, p.meta),
                <<LogLine("INFO", "Conversion successful")>>)
      [] p.kind = "raises" -> ExceptionExit(Raised("PipelineError", p.msg))
      [] OTHER -> ExceptionExit(Raised("TypeError", p.msg))

(* ------------------------------- state --------------------------------- *)

\* mainpc      where the module's top-level code is: "import" (before line
\*             29), "main" (models loaded), "serving" (inside app.run),
\*             "exited" (load_all_models raised)
\* model_list  the module global of that name
\* loads       number of load_all_models() calls made so far
\* pc, req     per connection: "idle", "pipeline" (the handler is inside
\*             convert_single_pdf), "responded"; and the request it carries
\* local       the locals of a handler inside convert_single_pdf
\* resp        the response written on the connection
\* parsed      request.get_json() was called for the connection's request
\* calls       number of convert_single_pdf calls made for that request
\* log         the logger's output: startup lines and the lines of the
\*             requests whose connection is still open, in order

Unloaded == "unloaded"
Handles == {"models#1", "models#2"}

NoReq == Request("none", PlainType, Body("empty", <<>>, NoFields), NoPipe)
NoLocal == [filename |-> DefaultFilename, nbytes |-> 0, models |-> Unloaded]

Entry(slot, line) == [slot |-> slot, level |-> line.level, event |-> line.event]
Logged(slot, lines) == log \o [i \in 1..Len(lines) |-> Entry(slot, lines[i])]

InitSlots(n) ==
    /\ mainpc = "import"
    /\ model_list = Unloaded
    /\ loads = 0
    /\ pc = [s \in 1..n |-> "idle"]
    /\ req = [s \in 1..n |-> NoReq]
    /\ local = [s \in 1..n |-> NoLocal]
    /\ resp = [s \in 1..n |-> NoResp]
    /\ parsed = [s \in 1..n |-> FALSE]
    /\ calls = [s \in 1..n |-> 0]
    /\ log = <<Entry(0, LogLine("INFO", "Loading marker-pdf models..."))>>

Init == InitSlots(1)
InitConc == InitSlots(NumSlots)

conn == <<pc, req, local, resp, parsed, calls>>

(* ------------------------------ startup -------------------------------- *)

\* model_list = load_all_models() returns
LoadModels ==
    /\ mainpc = "import"
    /\ \E h \in Handles : model_list' = h
    /\ loads' = loads + 1
    /\ log' = Logged(0, <<LogLine("INFO", "Models loaded successfully")>>)
    /\ mainpc' = "main"
    /\ UNCHANGED conn

\* load_all_models() raises: the import fails and the process ends
LoadFails ==
    /\ mainpc = "import"
    /\ loads' = loads + 1
    /\ mainpc' = "exited"
    /\ UNCHANGED <<model_list, log, conn>>

\* fault variant of AppRun: the server starts without waiting for the load
AppRunBeforeLoad ==
    /\ mainpc \in {"import", "main"}
    /\ log' = Logged(0, <<LogLine("INFO", "Starting Python ML service")>>)
    /\ mainpc' = "serving"
    /\ UNCHANGED <<model_list, loads, conn>>

\* app.run(...): the server starts accepting requests
AppRun ==
    /\ mainpc = "main"
    /\ log' = Logged(0, <<LogLine("INFO", "Starting Python ML service")>>)
    /\ mainpc' = "serving"
    /\ UNCHANGED <<model_list, loads, conn>>

(* ------------------------------ handlers ------------------------------- *)

\* the server is up and connection s has no request
Ready(s) ==
    /\ mainpc = "serving"
    /\ pc[s] = "idle"

Routed(RS, route) == {r \in RS : r.route = route}

Respond(s, response) ==
    /\ pc' = [pc EXCEPT ![s] = "responded"]
    /\ resp' = [resp EXCEPT ![s] = response]

\* fault variant of HealthCheck: reports 503 while a conversion is running
HealthCheckBusy(s, RS) ==
    /\ Ready(s)
    /\ \E r \in Routed(RS, "health") :
         /\ req' = [req EXCEPT ![s] = r]
         /\ Respond(s, IF \E o \in DOMAIN pc : pc[o] = "pipeline"
                       THEN Response(503, [status |-> "busy", service |-> "python-ml-service",
                                           version |-> "1.0.0"])
                       ELSE Response(200, HealthPayload))
    /\ UNCHANGED <<mainpc, model_list, loads, local, parsed, calls, log>>

\* GET /health, for a request of RS
HealthCheck(s, RS) ==
    /\ Ready(s)
    /\ \E r \in Routed(RS, "health") :
         /\ req' = [req EXCEPT ![s] = r]
         /\ Respond(s, Response(200, HealthPayload))
    /\ UNCHANGED <<mainpc, model_list, loads, local, parsed, calls, log>>

\* fault variant of GenerateEmbeddings: validates the body before the stub
GenerateEmbeddingsParsing(s, RS) ==
    /\ Ready(s)
    /\ \E r \in Routed(RS, "embeddings") :
         /\ req' = [req EXCEPT ![s] = r]
         /\ \E g \in GetJson(r) :
              Respond(s, IF g.raised THEN Failure(400, <<"Invalid JSON">>)
                            ELSE Failure(501, NotImplementedMsg))
    /\ parsed' = [parsed EXCEPT ![s] = TRUE]
    /\ UNCHANGED <<mainpc, model_list, loads, local, calls, log>>

\* POST /generate-embeddings, for a request of RS
GenerateEmbeddings(s, RS) ==
    /\ Ready(s)
    /\ \E r \in Routed(RS, "embeddings") :
         /\ req' = [req EXCEPT ![s] = r]
         /\ Respond(s, Failure(501, NotImplementedMsg))
    /\ UNCHANGED <<mainpc, model_list, loads, local, parsed, calls, log>>

\* POST /convert-pdf for a request of RS, up to an early response or the
\* pipeline call
ConvertBegin(s, RS) ==
    /\ Ready(s)
    /\ \E r \in Routed(RS, "convert") :
         /\ req' = [req EXCEPT ![s] = r]
         /\ parsed' = [parsed EXCEPT ![s] = TRUE]
         /\ \E g \in GetJson(r) :
              LET e == ConvertPdfEntry(g) IN
              /\ log' = Logged(s, e.logs)
              /\ IF e.call
                 THEN /\ pc' = [pc EXCEPT ![s] = "pipeline"]
                      /\ local' = [local EXCEPT ![s] = [filename |-> e.filename,
                                                         nbytes |-> e.nbytes,
                                                         models |-> model_list]]
                      /\ calls' = [calls EXCEPT ![s] = @ + 1]
                      /\ UNCHANGED resp
                 ELSE /\ Respond(s, e.resp)
                      /\ UNCHANGED <<local, calls>>
    /\ UNCHANGED <<mainpc, model_list, loads>>

\* convert_single_pdf returns or raises; the handler responds
ConvertEnd(s) ==
    /\ pc[s] = "pipeline"
    /\ LET e == ConvertPdfExit(req[s].pipe) IN
         /\ log' = Logged(s, e.logs)
         /\ Respond(s, e.resp)
    /\ local' = [local EXCEPT ![s] = NoLocal]
    /\ UNCHANGED <<mainpc, model_list, loads, req, parsed, calls>>

\* the response is sent and the connection is free for the next request
Close(s) ==
    /\ pc[s] = "responded"
    /\ pc' = [pc EXCEPT ![s] = "idle"]
    /\ req' = [req EXCEPT ![s] = NoReq]
    /\ resp' = [resp EXCEPT ![s] = NoResp]
    /\ parsed' = [parsed EXCEPT ![s] = FALSE]
    /\ calls' = [calls EXCEPT ![s] = 0]
    /\ log' = SelectSeq(log, LAMBDA e : e.slot # s)
    /\ UNCHANGED <<mainpc, model_list, loads, local>>

Slots == 1..NumSlots

\* one connection at a time, every request of Requests
Next ==
    \/ LoadModels
    \/ LoadFails
    \/ AppRun
    \/ HealthCheck(1, Requests)
    \/ GenerateEmbeddings(1, Requests)
    \/ ConvertBegin(1, Requests)
    \/ ConvertEnd(1)
    \/ Close(1)
Spec == Init /\ [][Next]_vars

\* NumSlots connections at a time, the requests of ConcRequests
NextConc ==
    \/ LoadModels
    \/ LoadFails
    \/ AppRun
    \/ \E s \in Slots : HealthCheck(s, ConcRequests)
    \/ \E s \in Slots : GenerateEmbeddings(s, ConcRequests)
    \/ \E s \in Slots : ConvertBegin(s, ConcRequests)
    \/ \E s \in Slots : ConvertEnd(s)
    \/ \E s \in Slots : Close(s)
SpecConc == InitConc /\ [][NextConc]_vars

(* ------------------------------ properties ----------------------------- *)

Done(s, route) == pc[s] = "responded" /\ req[s].route = route

\* the request is a JSON object with the given key
Carries(r, key) == r.ctype = JsonType /\ r.body.kind = "object" /\ key \in DOMAIN r.body.fields

IsFailure(rp) == DOMAIN rp.body = {"success", "error"} /\ rp.body.success = FALSE
IsSuccess(rp) ==
    DOMAIN rp.body = {"success", "markdown", "metadata"} /\ rp.body.success = TRUE

\* base64 as RFC 4648 defines it: alphabet characters in quads, at most two
\* pad characters, at the very end
ValidBase64(v) ==
    /\ v.t = "str"
    /\ Len(v.s) % 4 = 0
    /\ \A i \in 1..Len(v.s) :
         /\ v.s[i] = "=" \/ IsB64Alphabet(v.s[i])
         /\ v.s[i] = "=" => /\ i >= Len(v.s) - 1
                            /\ v.s[Len(v.s)] = "="

\* C1: every /convert-pdf request whose body does not carry the required
\* field (no JSON object with that key: {}, other keys only, null, an array,
\* a string, an empty or unparseable body) is answered 400, success:false.
C1_MissingFieldIs400 ==
    \A s \in DOMAIN pc :
        (Done(s, "convert") /\ ~Carries(req[s], SnakeKey))
            => (resp[s].status = 400 /\ IsFailure(resp[s]))

\* C2: every /convert-pdf request whose payload value is not valid base64
\* (a string that is not RFC 4648 base64, or a value that is no string) is
\* answered 400, success:false, and the pipeline is not invoked for it.
C2_InvalidBase64Is400 ==
    \A s \in DOMAIN pc :
        (req[s].route = "convert" /\ Carries(req[s], SnakeKey)
           /\ ~ValidBase64(req[s].body.fields[SnakeKey]))
            => /\ calls[s] = 0
               /\ pc[s] # "pipeline"
               /\ pc[s] = "responded" => (resp[s].status = 400 /\ IsFailure(resp[s]))

\* C3: when a request passed validation and decoding and the pipeline
\* raised an error with message m, the response is 500, success:false, with
\* an error string that contains m.
C3_PipelineErrorIs500 ==
    \A s \in DOMAIN pc :
        (Done(s, "convert") /\ calls[s] > 0 /\ req[s].pipe.kind = "raises")
            => /\ resp[s].status = 500
               /\ IsFailure(resp[s])
               /\ Contains(resp[s].body.error, req[s].pipe.msg)

C3_Witness ==
    \E s \in DOMAIN pc :
        /\ Done(s, "convert") /\ calls[s] > 0
        /\ req[s].pipe.kind = "raises" /\ req[s].pipe.msg = <<"bad", "xref">>
        /\ resp[s].status = 500

\* C4: in every success response, metadata.chars is the length of the
\* markdown of that response, whatever count the pipeline reported.
C4_CharsIsMarkdownLength ==
    \A s \in DOMAIN pc :
        (Done(s, "convert") /\ IsSuccess(resp[s]))
            => resp[s].body.metadata.chars = Len(resp[s].body.markdown)

C4_Witness ==
    \E s \in DOMAIN pc :
        /\ Done(s, "convert") /\ IsSuccess(resp[s])
        /\ Len(resp[s].body.markdown) > 0
        /\ "chars" \in DOMAIN req[s].pipe.meta
        /\ req[s].pipe.meta["chars"] # Len(resp[s].body.markdown)

\* the request of C5 with the payload under `key`: a JSON object with valid
\* base64 under that key and no filename, whose document the pipeline turns
\* into markdown md with p pages
C5_Case(s, key) ==
    /\ Done(s, "convert")
    /\ Carries(req[s], key)
    /\ ValidBase64(req[s].body.fields[key])
    /\ FilenameKey \notin DOMAIN req[s].body.fields
    /\ req[s].pipe.kind = "returns"
    /\ "pages" \in DOMAIN req[s].pipe.meta

C5_Converted(s) ==
    /\ resp[s].status = 200
    /\ IsSuccess(resp[s])
    /\ resp[s].body.markdown = req[s].pipe.md
    /\ resp[s].body.metadata.pages = req[s].pipe.meta["pages"]

\* C5 as stated: a request with a valid base64 PDF under the key pdfBase64
\* and no filename, whose conversion returns markdown md and p pages, is
\* answered 200, success:true, markdown = md, metadata.pages = p.
C5_CamelKeyConverts ==
    \A s \in DOMAIN pc : C5_Case(s, "pdfBase64") => C5_Converted(s)

\* C5 amended: the same with the payload under the key pdf_base64.
C5_SnakeKeyConverts ==
    \A s \in DOMAIN pc : C5_Case(s, "pdf_base64") => C5_Converted(s)

C5_Witness ==
    \E s \in DOMAIN pc :
        /\ C5_Case(s, "pdf_base64")
        /\ req[s].body.fields["pdf_base64"] = SampleB64
        /\ req[s].pipe.md # <<>>
        /\ resp[s].status = 200

\* C6: every /generate-embeddings request is answered 501, success:false,
\* with the fixed message, whatever its body; the handler reads no body and
\* invokes no pipeline.
C6_EmbeddingsIs501 ==
    \A s \in DOMAIN pc :
        Done(s, "embeddings")
            => /\ resp[s] = Failure(501, NotImplementedMsg)
               /\ ~parsed[s]
               /\ calls[s] = 0

C6_Witness ==
    \E s \in DOMAIN pc :
        /\ Done(s, "embeddings")
        /\ req[s].body.kind = "malformed"
        /\ resp[s].status = 501

\* connection s is answered by the /health handler in this step
HealthServed(s) ==
    pc[s] = "idle" /\ pc'[s] = "responded" /\ req'[s].route = "health"

\* C7: every step that serves /health answers 200 with the fixed payload,
\* whatever the other connections are doing or were answered, and changes
\* nothing but its own connection.
C7_HealthFixedAndPure ==
    [][\A s \in DOMAIN pc :
          HealthServed(s)
              => /\ resp'[s] = Response(200, HealthPayload)
                 /\ UNCHANGED <<mainpc, model_list, loads, local, parsed, calls, log>>
                 /\ \A o \in DOMAIN pc \ {s} :
                      pc'[o] = pc[o] /\ req'[o] = req[o] /\ resp'[o] = resp[o]]_vars

C7_Witness ==
    \E s, o, u \in DOMAIN pc :
        /\ Done(s, "health") /\ resp[s].status = 200
        /\ pc[o] = "pipeline"
        /\ Done(u, "convert") /\ resp[u].status = 500 /\ IsFailure(resp[u])

\* C8: every /convert-pdf response is either 200 with success:true, markdown
\* and metadata, or 400 or 500 with exactly {success:false, error}; and the
\* pipeline is invoked at most once per request.
C8_TwoShapes ==
    \A s \in DOMAIN pc :
        req[s].route = "convert"
            => /\ calls[s] <= 1
               /\ pc[s] = "responded"
                    => \/ resp[s].status = 200 /\ IsSuccess(resp[s])
                       \/ resp[s].status \in {400, 500} /\ IsFailure(resp[s])

C8_Witness ==
    \E s \in DOMAIN pc :
        /\ Done(s, "convert")
        /\ req[s].ctype = JsonType /\ req[s].body.kind = "malformed"
        /\ resp[s].status = 500 /\ IsFailure(resp[s])

\* C9: whenever a handler is running or has answered, the model handle is
\* the one the single startup load produced: it is loaded, it was loaded
\* exactly once, and a handler inside the pipeline call holds that handle.
C9_ModelLoadedOnce ==
    \A s \in DOMAIN pc :
        pc[s] # "idle"
            => /\ model_list \in Handles
               /\ loads = 1
               /\ pc[s] = "pipeline" => local[s].models = model_list

C9_Witness ==
    \E s, o \in DOMAIN pc :
        /\ s # o
        /\ pc[s] = "pipeline" /\ pc[o] = "pipeline"
        /\ local[s].models = model_list /\ local[o].models = model_list

\* C10: every /convert-pdf request answered with success:false (400 for a
\* missing field, 400 for bad base64, 500 for a failed conversion) has an
\* ERROR entry in the log by the time the response exists.
C10_FailureIsLogged ==
    \A s \in DOMAIN pc :
        (Done(s, "convert") /\ IsFailure(resp[s]))
            => \E i \in 1..Len(log) : log[i].slot = s /\ log[i].level = "ERROR"
====
